---- MODULE Spec2Model ----
(***************************************************************************)
(* Model of watchdog.py: one synthetic health check of a web endpoint.     *)
(*                                                                         *)
(* Encoding of Python values:                                              *)
(*   - an optional value is a sequence: None is <<>>, the value v is <<v>>;*)
(*   - a float number of seconds is an integer number of milliseconds      *)
(*     (BASELINE_TIME 0.21 s is 210, SLOW_THRESHOLD 0.42 s is 420);        *)
(*   - the result of an expression that can raise is a record              *)
(*     [exc, txt]: exc is "" when it returns and the exception's class     *)
(*     name when it raises.                                                *)
(***************************************************************************)
EXTENDS Integers, Sequences, FiniteSets, TLC

(***************************************************************************)
(* Module constants of watchdog.py                                         *)
(***************************************************************************)
BASELINE_SIZE == 1145
BASELINE_TIME == 210
SIZE_LOW == 900
SIZE_HIGH == 1400
SLOW_FACTOR == 2
SLOW_THRESHOLD == BASELINE_TIME * SLOW_FACTOR
IST_OFFSET == 5 * 60 + 30

(***************************************************************************)
(* Bounds of the model                                                     *)
(***************************************************************************)
\* sizes are taken within SizeSlack bytes of each edge of the size window
SizeSlack == 1
\* latencies are taken within TimeSlack milliseconds of the slow threshold
TimeSlack == 1
\* at most MaxChats destinations in TG_CHAT_IDS
MaxChats == 2

None == <<>>
Some(v) == <<v>>

StatusCodes == {200, 301, 500}
Sizes == {0, 500, BASELINE_SIZE, 5000}
           \cup (SIZE_LOW - SizeSlack .. SIZE_LOW + SizeSlack)
           \cup (SIZE_HIGH - SizeSlack .. SIZE_HIGH + SizeSlack)
Times == {0, 200, 1000}
           \cup (SLOW_THRESHOLD - TimeSlack .. SLOW_THRESHOLD + TimeSlack)
\* str(e) of the exception caught in main; "" is str() of an exception
\* built without arguments
ErrorTexts == {"", "Connection refused"}
States == {"GOOD", "ABNORMAL", "DOWN"}
ReasonTags == {None, Some("CONTENT"), Some("SLOW"), Some("ERROR"), Some("OTHER")}
\* minutes since 01 Jan 2026 00:00 UTC
\* the first minute, and the two minutes around the change of day in IST
Nows == {0, 24 * 60 - IST_OFFSET - 1, 24 * 60 - IST_OFFSET}
ChatIds == {"111", "222"}
Tokens == {None, Some(""), Some("tok")}

Opt(S) == {None} \cup {Some(v) : v \in S}

VARIABLES
  pc,           \* position of main, or of the caller of the pure functions
  status_code,  \* main's local / argument of classify and build_message
  size_bytes,
  time_sec,
  error,
  verdict,      \* what the last call of classify did
  state,        \* main's local / argument of build_message
  reason_tag,
  lines,        \* build_message's local: the lines of the report
  message,      \* what build_message returned, None before it returns
  exc,          \* class name of the exception that left the call, "" if none
  stdout,       \* the lines printed so far
  tg_message,   \* send_telegram's parameter, None while it was never called
  tg_i,         \* number of destinations send_telegram's loop has taken
  attempts,     \* the requests.get calls made by send_telegram
  calls,        \* number of calls of build_message and of send_telegram
  TG_TOKEN,
  TG_CHAT_IDS,
  baseline,     \* the module globals BASELINE_SIZE and BASELINE_TIME
  now           \* datetime.utcnow(), in minutes

vars == <<pc, status_code, size_bytes, time_sec, error, verdict, state,
          reason_tag, lines, message, exc, stdout, tg_message, tg_i, attempts,
          calls, TG_TOKEN, TG_CHAT_IDS, baseline, now>>

(***************************************************************************)
(* Python primitives                                                       *)
(***************************************************************************)
Ok(t) == [exc |-> "", txt |-> t]
Raise(e) == [exc |-> e, txt |-> ""]

\* bool(x) of an optional number
TruthyNum(o) == o # None /\ o[1] # 0
\* bool(x) of an optional string
TruthyStr(o) == o # None /\ o[1] # ""

\* a < b where b is a number: TypeError when a is None
PyLess(a, b) == IF a = None THEN Raise("TypeError")
                ELSE Ok(IF a[1] < b THEN "True" ELSE "False")
PyGreater(a, b) == IF a = None THEN Raise("TypeError")
                   ELSE Ok(IF a[1] > b THEN "True" ELSE "False")

\* n / d rounded to the nearest integer (no operand of the model is a tie)
Round(n, d) == (2 * n + d) \div (2 * d)

Pad2(n) == IF n < 10 THEN "0" \o ToString(n) ELSE ToString(n)
Pad3(n) == IF n < 10 THEN "00" \o ToString(n)
           ELSE IF n < 100 THEN "0" \o ToString(n) ELSE ToString(n)

\* f"{x}"
PyStr(o) == IF o = None THEN "None" ELSE ToString(o[1])

\* f"{x:.3f}" of a number of milliseconds: TypeError when x is None
FormatF3(o) == IF o = None THEN Raise("TypeError")
               ELSE Ok(ToString(o[1] \div 1000) \o "." \o Pad3(o[1] % 1000))

\* f"{x:.2f}" of a number of milliseconds
FormatF2(ms) == LET cs == Round(ms, 10)
                IN  ToString(cs \div 100) \o "." \o Pad2(cs % 100)

\* f"{(a / b) * 100:.0f}": TypeError when a is None, ZeroDivisionError when b is 0
FormatPct(a, b) == IF a = None THEN Raise("TypeError")
                   ELSE IF b = 0 THEN Raise("ZeroDivisionError")
                   ELSE Ok(ToString(Round(100 * a[1], b)))

\* f"{a / b:.1f}"
FormatFactor(a, b) == IF a = None THEN Raise("TypeError")
                      ELSE IF b = 0 THEN Raise("ZeroDivisionError")
                      ELSE LET t == Round(10 * a[1], b)
                           IN  Ok(ToString(t \div 10) \o "." \o ToString(t % 10))

RECURSIVE Join(_)
\* "  ".join(ls)
Join(ls) == IF ls = <<>> THEN ""
            ELSE IF Len(ls) = 1 THEN ls[1]
            ELSE ls[1] \o "  " \o Join(Tail(ls))

(***************************************************************************)
(* now_str                                                                 *)
(***************************************************************************)
now_str == LET ist == now + IST_OFFSET
           IN  Pad2(ist \div (24 * 60) + 1) \o " Jan 2026, "
                 \o Pad2((ist % (24 * 60)) \div 60) \o ":" \o Pad2(ist % 60) \o " IST"

(***************************************************************************)
(* classify                                                                *)
(***************************************************************************)
Returned(s, r) == [kind |-> "return", state |-> s, reason_tag |-> r, exc |-> ""]
Raised(e) == [kind |-> "raise", state |-> "", reason_tag |-> None, exc |-> e]
NoVerdict == [kind |-> "none", state |-> "", reason_tag |-> None, exc |-> ""]

\* classify without the test of the status code
classify_anyStatus(p_status_code, p_size_bytes, p_time_sec, p_error) ==
  IF p_error # None \/ p_status_code = None
  THEN Returned("DOWN", Some("ERROR"))
  ELSE LET lo == PyLess(p_size_bytes, SIZE_LOW)
           hi == PyGreater(p_size_bytes, SIZE_HIGH)
           slow == PyGreater(p_time_sec, SLOW_THRESHOLD)
       IN  IF lo.exc # "" THEN Raised(lo.exc)
           ELSE IF lo.txt = "True" THEN Returned("ABNORMAL", Some("CONTENT"))
           ELSE IF hi.exc # "" THEN Raised(hi.exc)
           ELSE IF hi.txt = "True" THEN Returned("ABNORMAL", Some("CONTENT"))
           ELSE IF slow.exc # "" THEN Raised(slow.exc)
           ELSE IF slow.txt = "True" THEN Returned("ABNORMAL", Some("SLOW"))
           ELSE Returned("GOOD", None)

\* classify with the slow check ahead of the content check
classify_slowFirst(p_status_code, p_size_bytes, p_time_sec, p_error) ==
  IF p_error # None \/ p_status_code = None \/ p_status_code[1] # 200
  THEN Returned("DOWN", Some("ERROR"))
  ELSE LET lo == PyLess(p_size_bytes, SIZE_LOW)
           hi == PyGreater(p_size_bytes, SIZE_HIGH)
           slow == PyGreater(p_time_sec, SLOW_THRESHOLD)
       IN  IF slow.exc # "" THEN Raised(slow.exc)
           ELSE IF slow.txt = "True" THEN Returned("ABNORMAL", Some("SLOW"))
           ELSE IF lo.exc # "" THEN Raised(lo.exc)
           ELSE IF lo.txt = "True" THEN Returned("ABNORMAL", Some("CONTENT"))
           ELSE IF hi.exc # "" THEN Raised(hi.exc)
           ELSE IF hi.txt = "True" THEN Returned("ABNORMAL", Some("CONTENT"))
           ELSE Returned("GOOD", None)

\* classify with time_sec >= SLOW_THRESHOLD
classify_slowAtThreshold(p_status_code, p_size_bytes, p_time_sec, p_error) ==
  IF p_error # None \/ p_status_code = None \/ p_status_code[1] # 200
  THEN Returned("DOWN", Some("ERROR"))
  ELSE LET lo == PyLess(p_size_bytes, SIZE_LOW)
           hi == PyGreater(p_size_bytes, SIZE_HIGH)
           slow == PyGreater(p_time_sec, SLOW_THRESHOLD - 1)
       IN  IF lo.exc # "" THEN Raised(lo.exc)
           ELSE IF lo.txt = "True" THEN Returned("ABNORMAL", Some("CONTENT"))
           ELSE IF hi.exc # "" THEN Raised(hi.exc)
           ELSE IF hi.txt = "True" THEN Returned("ABNORMAL", Some("CONTENT"))
           ELSE IF slow.exc # "" THEN Raised(slow.exc)
           ELSE IF slow.txt = "True" THEN Returned("ABNORMAL", Some("SLOW"))
           ELSE Returned("GOOD", None)

\* classify that returns no reason tag with the slow verdict
classify_slowUntagged(p_status_code, p_size_bytes, p_time_sec, p_error) ==
  IF p_error # None \/ p_status_code = None \/ p_status_code[1] # 200
  THEN Returned("DOWN", Some("ERROR"))
  ELSE LET lo == PyLess(p_size_bytes, SIZE_LOW)
           hi == PyGreater(p_size_bytes, SIZE_HIGH)
           slow == PyGreater(p_time_sec, SLOW_THRESHOLD)
       IN  IF lo.exc # "" THEN Raised(lo.exc)
           ELSE IF lo.txt = "True" THEN Returned("ABNORMAL", Some("CONTENT"))
           ELSE IF hi.exc # "" THEN Raised(hi.exc)
           ELSE IF hi.txt = "True" THEN Returned("ABNORMAL", Some("CONTENT"))
           ELSE IF slow.exc # "" THEN Raised(slow.exc)
           ELSE IF slow.txt = "True" THEN Returned("ABNORMAL", None)
           ELSE Returned("GOOD", None)

classify(p_status_code, p_size_bytes, p_time_sec, p_error) ==
  IF p_error # None \/ p_status_code = None \/ p_status_code[1] # 200
  THEN Returned("DOWN", Some("ERROR"))
  ELSE LET lo == PyLess(p_size_bytes, SIZE_LOW)
           hi == PyGreater(p_size_bytes, SIZE_HIGH)
           slow == PyGreater(p_time_sec, SLOW_THRESHOLD)
       IN  IF lo.exc # "" THEN Raised(lo.exc)
           ELSE IF lo.txt = "True" THEN Returned("ABNORMAL", Some("CONTENT"))
           ELSE IF hi.exc # "" THEN Raised(hi.exc)
           ELSE IF hi.txt = "True" THEN Returned("ABNORMAL", Some("CONTENT"))
           ELSE IF slow.exc # "" THEN Raised(slow.exc)
           ELSE IF slow.txt = "True" THEN Returned("ABNORMAL", Some("SLOW"))
           ELSE Returned("GOOD", None)

(***************************************************************************)
(* build_message                                                           *)
(***************************************************************************)
size_txt(p_size_bytes) ==
  IF p_size_bytes # None THEN Ok(PyStr(p_size_bytes) \o " bytes") ELSE Ok("N/A")

time_txt(p_time_sec) ==
  IF p_time_sec # None
  THEN LET f == FormatF3(p_time_sec)
       IN  IF f.exc # "" THEN f ELSE Ok(f.txt \o " s")
  ELSE Ok("N/A")

\* pct_txt that guards the numerator only
pct_txt_noBaselineGuard(p_size_bytes) ==
  IF TruthyNum(p_size_bytes)
  THEN LET f == FormatPct(p_size_bytes, baseline.size)
       IN  IF f.exc # "" THEN f ELSE Ok(f.txt \o "% of normal")
  ELSE Ok("unknown vs normal")

pct_txt(p_size_bytes) ==
  IF TruthyNum(p_size_bytes) /\ baseline.size # 0
  THEN LET f == FormatPct(p_size_bytes, baseline.size)
       IN  IF f.exc # "" THEN f ELSE Ok(f.txt \o "% of normal")
  ELSE Ok("unknown vs normal")

factor_txt(p_time_sec) ==
  IF TruthyNum(p_time_sec) /\ baseline.time # 0
  THEN LET f == FormatFactor(p_time_sec, baseline.time)
       IN  IF f.exc # "" THEN f ELSE Ok(f.txt \o "X slower than normal")
  ELSE Ok("slower than normal")

err_txt(p_status_code, p_error) ==
  IF TruthyStr(p_error) THEN p_error[1]
  ELSE IF p_status_code # None THEN "HTTP " \o PyStr(p_status_code)
  ELSE "Unknown error"

Built(ls) == [exc |-> "", lines |-> ls]
Failed(e) == [exc |-> e, lines |-> <<>>]

build_message(p_state, p_reason_tag, p_status_code, p_size_bytes, p_time_sec, p_error) ==
  LET ts == now_str
      st == size_txt(p_size_bytes)
      tt == time_txt(p_time_sec)
      bs == ToString(baseline.size)
      bt == FormatF2(baseline.time)
  IN
  IF st.exc # "" THEN Failed(st.exc)
  ELSE IF tt.exc # "" THEN Failed(tt.exc)
  ELSE IF p_state = "GOOD" THEN
    Built(<< "SAILGPT WatchDog: " \o p_state,
             "SailGPT is behaving normally.",
             "Last check: " \o ts,
             "Response time: " \o tt.txt \o " (normal ~" \o bt \o " s)",
             "Page size: " \o st.txt \o " (normal ~" \o bs \o " bytes)" >>)
  ELSE IF p_state = "ABNORMAL" /\ p_reason_tag = Some("CONTENT") THEN
    LET p == pct_txt(p_size_bytes)
    IN  IF p.exc # "" THEN Failed(p.exc)
        ELSE Built(<< "SAILGPT WatchDog: ABNORMAL (CONTENT)",
             "SailGPT is reachable, but the page content is unusual compared to normal.",
             "Last check: " \o ts,
             "Page size: " \o st.txt \o " (normal ~" \o bs \o " bytes) = " \o p.txt \o ".",
             "This may indicate an error page or backend issue. Please verify manually by logging in and sending a test prompt." >>)
  ELSE IF p_state = "ABNORMAL" /\ p_reason_tag = Some("SLOW") THEN
    LET f == factor_txt(p_time_sec)
    IN  IF f.exc # "" THEN Failed(f.exc)
        ELSE Built(<< "SAILGPT WatchDog: ABNORMAL (SLOW)",
             "SailGPT is reachable, but slower than usual.",
             "Last check: " \o ts,
             "Response time: " \o tt.txt \o " (normal ~" \o bt \o " s) = " \o f.txt \o ".",
             "Page size: " \o st.txt \o " (normal ~" \o bs \o " bytes).",
             "System is up, but performance is degraded. May please monitor and escalate if users report issues." >>)
  ELSE IF p_state = "ABNORMAL" THEN
    Built(<< "SAILGPT WatchDog: ABNORMAL",
             "SailGPT is reachable, but behaviour is unusual.",
             "Last check: " \o ts,
             "Status code: " \o PyStr(p_status_code),
             "Response time: " \o tt.txt,
             "Page size: " \o st.txt,
             "Please verify manually." >>)
  ELSE
    Built(<< "SAILGPT WatchDog: DOWN",
             "SailGPT is not reachable.",
             "Last check: " \o ts,
             "Error: " \o err_txt(p_status_code, p_error) \o ".",
             "This indicates an outage at the portal/infra level." >>)

(***************************************************************************)
(* main                                                                    *)
(***************************************************************************)
ChatLists == UNION {[1..n -> ChatIds] : n \in 0..MaxChats}
Defaults == [size |-> BASELINE_SIZE, time |-> BASELINE_TIME]
NoCalls == [build_message |-> 0, send_telegram |-> 0]

\* the state when main is entered: the module globals are set (lines 7-16)
\* and main's four locals are None (lines 135-138)
Init ==
  /\ pc = "get"
  /\ status_code = None /\ size_bytes = None /\ time_sec = None /\ error = None
  /\ verdict = NoVerdict /\ state = "" /\ reason_tag = None
  /\ lines = <<>> /\ message = None /\ exc = ""
  /\ stdout = <<>> /\ tg_message = None /\ tg_i = 0 /\ attempts = <<>>
  /\ calls = NoCalls
  /\ TG_TOKEN \in Tokens
  /\ TG_CHAT_IDS \in ChatLists
  /\ baseline = Defaults
  /\ now \in Nows

globals == <<TG_TOKEN, TG_CHAT_IDS, baseline, now>>
outcome == <<status_code, size_bytes, time_sec, error>>
report == <<lines, message>>
telegram == <<tg_message, tg_i, attempts>>

\* requests.get(URL, timeout=10) raises: error = str(e)
GetRaises ==
  /\ pc = "get"
  /\ \E e \in ErrorTexts : error' = Some(e)
  /\ pc' = "classify"
  /\ UNCHANGED <<status_code, size_bytes, time_sec, verdict, state, reason_tag,
                 report, exc, stdout, telegram, calls, globals>>

\* requests.get returns: time_sec = time.time() - start
GetReturns ==
  /\ pc = "get"
  /\ \E t \in Times : time_sec' = Some(t)
  /\ pc' = "status"
  /\ UNCHANGED <<status_code, size_bytes, error, verdict, state, reason_tag,
                 report, exc, stdout, telegram, calls, globals>>

\* status_code = resp.status_code
ReadStatus ==
  /\ pc = "status"
  /\ \E c \in StatusCodes : status_code' = Some(c)
  /\ pc' = "size"
  /\ UNCHANGED <<size_bytes, time_sec, error, verdict, state, reason_tag,
                 report, exc, stdout, telegram, calls, globals>>

\* reading resp.status_code raises
ReadStatusRaises ==
  /\ pc = "status"
  /\ \E e \in ErrorTexts : error' = Some(e)
  /\ pc' = "classify"
  /\ UNCHANGED <<status_code, size_bytes, time_sec, verdict, state, reason_tag,
                 report, exc, stdout, telegram, calls, globals>>

\* size_bytes = len(resp.content)
ReadSize ==
  /\ pc = "size"
  /\ \E n \in Sizes : size_bytes' = Some(n)
  /\ pc' = "classify"
  /\ UNCHANGED <<status_code, time_sec, error, verdict, state, reason_tag,
                 report, exc, stdout, telegram, calls, globals>>

\* a handler that forgets to record the error
ReadSizeRaises_noError ==
  /\ pc = "size"
  /\ pc' = "classify"
  /\ UNCHANGED <<outcome, verdict, state, reason_tag,
                 report, exc, stdout, telegram, calls, globals>>

\* len(resp.content) raises
ReadSizeRaises ==
  /\ pc = "size"
  /\ \E e \in ErrorTexts : error' = Some(e)
  /\ pc' = "classify"
  /\ UNCHANGED <<status_code, size_bytes, time_sec, verdict, state, reason_tag,
                 report, exc, stdout, telegram, calls, globals>>

\* state, reason_tag = classify(status_code, size_bytes, time_sec, error)
Classify ==
  /\ pc = "classify"
  /\ verdict' = classify(status_code, size_bytes, time_sec, error)
  /\ IF verdict'.kind = "raise"
     THEN /\ exc' = verdict'.exc
          /\ pc' = "crashed"
          /\ UNCHANGED <<state, reason_tag>>
     ELSE /\ state' = verdict'.state
          /\ reason_tag' = verdict'.reason_tag
          /\ pc' = "build"
          /\ UNCHANGED exc
  /\ UNCHANGED <<outcome, report, stdout, telegram, calls, globals>>

\* message = build_message(state, reason_tag, status_code, size_bytes, time_sec, error)
Build ==
  /\ pc = "build"
  /\ LET m == build_message(state, reason_tag, status_code, size_bytes, time_sec, error)
     IN  IF m.exc # ""
         THEN /\ exc' = m.exc
              /\ pc' = "crashed"
              /\ UNCHANGED report
         ELSE /\ lines' = m.lines
              /\ message' = Some(Join(m.lines))
              /\ pc' = "print_message"
              /\ UNCHANGED exc
  /\ calls' = [calls EXCEPT !.build_message = @ + 1]
  /\ UNCHANGED <<outcome, verdict, state, reason_tag, stdout, telegram, globals>>

\* print(message)
PrintMessage ==
  /\ pc = "print_message"
  /\ stdout' = Append(stdout, message[1])
  /\ pc' = "print_blank"
  /\ UNCHANGED <<outcome, verdict, state, reason_tag, report, exc, telegram,
                 calls, globals>>

\* print("  ")
PrintBlank ==
  /\ pc = "print_blank"
  /\ stdout' = Append(stdout, "  ")
  /\ pc' = "print_state"
  /\ UNCHANGED <<outcome, verdict, state, reason_tag, report, exc, telegram,
                 calls, globals>>

\* print(f"STATE: {state}")
PrintState ==
  /\ pc = "print_state"
  /\ stdout' = Append(stdout, "STATE: " \o state)
  /\ pc' = "notify"
  /\ UNCHANGED <<outcome, verdict, state, reason_tag, report, exc, telegram,
                 calls, globals>>

\* a caller that relays every message
Notify_always ==
  /\ pc = "notify"
  /\ tg_message' = message
  /\ calls' = [calls EXCEPT !.send_telegram = @ + 1]
  /\ pc' = "send_telegram"
  /\ UNCHANGED <<outcome, verdict, state, reason_tag, report, exc, stdout,
                 tg_i, attempts, globals>>

\* if state != "GOOD": send_telegram(message)
Notify ==
  /\ pc = "notify"
  /\ IF state # "GOOD"
     THEN /\ tg_message' = message
          /\ calls' = [calls EXCEPT !.send_telegram = @ + 1]
          /\ pc' = "send_telegram"
     ELSE /\ pc' = "done"
          /\ UNCHANGED <<tg_message, calls>>
  /\ UNCHANGED <<outcome, verdict, state, reason_tag, report, exc, stdout,
                 tg_i, attempts, globals>>

(***************************************************************************)
(* send_telegram                                                           *)
(***************************************************************************)
Configured == TruthyStr(TG_TOKEN) /\ TG_CHAT_IDS # <<>>

\* if not TG_TOKEN or not TG_CHAT_IDS: print the warning and return
SendUnconfigured ==
  /\ pc = "send_telegram"
  /\ ~Configured
  /\ stdout' = Append(stdout, "WARNING: Telegram not configured (TG_TOKEN/TG_CHAT_IDS missing).")
  /\ pc' = "done"
  /\ UNCHANGED <<outcome, verdict, state, reason_tag, report, exc, telegram,
                 calls, globals>>

\* the for loop over TG_CHAT_IDS is entered
SendEnter ==
  /\ pc = "send_telegram"
  /\ Configured
  /\ pc' = "send_loop"
  /\ UNCHANGED <<outcome, verdict, state, reason_tag, report, exc, stdout,
                 telegram, calls, globals>>

\* what requests.get of one destination can do: answer 2xx, answer an HTTP
\* error (which is a response, not an exception), or raise
AttemptResults == {"ok", "http_error", "exception"}

Attempt(cid, r) == [cid |-> cid, text |-> tg_message[1], result |-> r]

\* a loop that gives up at the first failed destination
SendAttempt_break ==
  /\ pc = "send_loop"
  /\ tg_i < Len(TG_CHAT_IDS)
  /\ LET cid == TG_CHAT_IDS[tg_i + 1]
     IN  \E r \in AttemptResults :
           /\ attempts' = Append(attempts, Attempt(cid, r))
           /\ IF r = "exception"
              THEN /\ stdout' = Append(stdout, "WARNING: Telegram send failed for " \o cid \o ": " \o "error")
                   /\ tg_i' = Len(TG_CHAT_IDS)
              ELSE /\ tg_i' = tg_i + 1
                   /\ UNCHANGED stdout
  /\ UNCHANGED <<pc, outcome, verdict, state, reason_tag, report, exc,
                 tg_message, calls, globals>>

\* one iteration: try requests.get(...), except Exception print the warning
SendAttempt ==
  /\ pc = "send_loop"
  /\ tg_i < Len(TG_CHAT_IDS)
  /\ LET cid == TG_CHAT_IDS[tg_i + 1]
     IN  \E r \in AttemptResults :
           /\ attempts' = Append(attempts, Attempt(cid, r))
           /\ IF r = "exception"
              THEN stdout' = Append(stdout, "WARNING: Telegram send failed for " \o cid \o ": " \o "error")
              ELSE UNCHANGED stdout
  /\ tg_i' = tg_i + 1
  /\ UNCHANGED <<pc, outcome, verdict, state, reason_tag, report, exc,
                 tg_message, calls, globals>>

\* the loop is exhausted: send_telegram returns, and so does main
SendReturn ==
  /\ pc = "send_loop"
  /\ tg_i = Len(TG_CHAT_IDS)
  /\ pc' = "done"
  /\ UNCHANGED <<outcome, verdict, state, reason_tag, report, exc, stdout,
                 telegram, calls, globals>>

Next ==
  \/ GetRaises \/ GetReturns
  \/ ReadStatus \/ ReadStatusRaises
  \/ ReadSize \/ ReadSizeRaises
  \/ Classify \/ Build
  \/ PrintMessage \/ PrintBlank \/ PrintState
  \/ Notify
  \/ SendUnconfigured \/ SendEnter \/ SendAttempt \/ SendReturn

Spec == Init /\ [][Next]_vars

(***************************************************************************)
(* classify as a pure function: every combination of present and absent    *)
(* arguments, and build_message applied to the verdict it returns          *)
(***************************************************************************)
InitClassify ==
  /\ pc = "args"
  /\ status_code \in Opt(StatusCodes)
  /\ size_bytes \in Opt(Sizes)
  /\ time_sec \in Opt(Times)
  /\ error \in Opt(ErrorTexts)
  /\ verdict = NoVerdict /\ state = "" /\ reason_tag = None
  /\ lines = <<>> /\ message = None /\ exc = ""
  /\ stdout = <<>> /\ tg_message = None /\ tg_i = 0 /\ attempts = <<>>
  /\ calls = NoCalls
  /\ TG_TOKEN = None
  /\ TG_CHAT_IDS = <<>>
  /\ baseline = Defaults
  /\ now \in Nows

\* classify(status_code, size_bytes, time_sec, error)
CallClassify ==
  /\ pc = "args"
  /\ verdict' = classify(status_code, size_bytes, time_sec, error)
  /\ exc' = verdict'.exc
  /\ pc' = "classified"
  /\ UNCHANGED <<outcome, state, reason_tag, report, stdout, telegram, calls,
                 globals>>

\* state, reason_tag = the verdict; build_message(state, reason_tag, ...)
CallBuildOnVerdict ==
  /\ pc = "classified"
  /\ verdict.kind = "return"
  /\ state' = verdict.state
  /\ reason_tag' = verdict.reason_tag
  /\ LET m == build_message(verdict.state, verdict.reason_tag, status_code,
                            size_bytes, time_sec, error)
     IN  IF m.exc # ""
         THEN /\ exc' = m.exc
              /\ pc' = "raised"
              /\ UNCHANGED report
         ELSE /\ lines' = m.lines
              /\ message' = Some(Join(m.lines))
              /\ pc' = "built"
              /\ UNCHANGED exc
  /\ calls' = [calls EXCEPT !.build_message = @ + 1]
  /\ UNCHANGED <<outcome, verdict, stdout, telegram, globals>>

NextClassify == CallClassify \/ CallBuildOnVerdict

SpecClassify == InitClassify /\ [][NextClassify]_vars

(***************************************************************************)
(* build_message as a pure function: every state, every reason tag, every  *)
(* combination of present and absent fields, zero and non-zero baselines   *)
(***************************************************************************)
Baselines == [size : {0, BASELINE_SIZE}, time : {0, BASELINE_TIME}]

InitBuild ==
  /\ pc = "args"
  /\ state \in States
  /\ reason_tag \in ReasonTags
  /\ status_code \in Opt(StatusCodes)
  /\ size_bytes \in Opt(Sizes)
  /\ time_sec \in Opt(Times)
  /\ error \in Opt(ErrorTexts)
  /\ verdict = NoVerdict
  /\ lines = <<>> /\ message = None /\ exc = ""
  /\ stdout = <<>> /\ tg_message = None /\ tg_i = 0 /\ attempts = <<>>
  /\ calls = NoCalls
  /\ TG_TOKEN = None
  /\ TG_CHAT_IDS = <<>>
  /\ baseline \in Baselines
  /\ now \in Nows

\* build_message(state, reason_tag, status_code, size_bytes, time_sec, error)
CallBuildMessage ==
  /\ pc = "args"
  /\ LET m == build_message(state, reason_tag, status_code, size_bytes,
                            time_sec, error)
     IN  IF m.exc # ""
         THEN /\ exc' = m.exc
              /\ pc' = "raised"
              /\ UNCHANGED report
         ELSE /\ lines' = m.lines
              /\ message' = Some(Join(m.lines))
              /\ pc' = "built"
              /\ UNCHANGED exc
  /\ calls' = [calls EXCEPT !.build_message = @ + 1]
  /\ UNCHANGED <<outcome, verdict, state, reason_tag, stdout, telegram, globals>>

NextBuild == CallBuildMessage

SpecBuild == InitBuild /\ [][NextBuild]_vars

(***************************************************************************)
(* Properties                                                              *)
(***************************************************************************)
classifyCalled == verdict.kind # "none"
Val(o) == o[1]
InWindow(o) == o # None /\ Val(o) >= SIZE_LOW /\ Val(o) <= SIZE_HIGH
OutOfWindow(o) == o # None /\ (Val(o) < SIZE_LOW \/ Val(o) > SIZE_HIGH)

\* C1: whenever error is present, or status_code is absent, or status_code
\* is not 200, classify returns exactly (DOWN, ERROR), whatever size_bytes
\* and time_sec are, absent values included (they are not evaluated).
C1_DownOnErrorOrNon200 ==
  (classifyCalled /\ (error # None \/ status_code = None \/ Val(status_code) # 200))
    => verdict = Returned("DOWN", Some("ERROR"))

C1_Witness ==
  /\ pc = "classified"
  /\ error = None /\ status_code = Some(301)
  /\ size_bytes = None /\ time_sec = Some(1000)
  /\ verdict.state = "DOWN"

\* C2: with no error and status 200, a size below SIZE_LOW or above
\* SIZE_HIGH gives (ABNORMAL, CONTENT), also when time_sec is above the slow
\* threshold: the content check comes first.
C2_ContentBeforeSlow ==
  (classifyCalled /\ error = None /\ status_code = Some(200) /\ OutOfWindow(size_bytes))
    => verdict = Returned("ABNORMAL", Some("CONTENT"))

C2_Witness ==
  /\ pc = "classified"
  /\ error = None /\ status_code = Some(200)
  /\ size_bytes = Some(SIZE_HIGH + 1) /\ time_sec = Some(1000)
  /\ verdict.reason_tag = Some("CONTENT")

\* C3: with no error, status 200 and SIZE_LOW <= size_bytes <= SIZE_HIGH,
\* classify returns (ABNORMAL, SLOW) when time_sec > SLOW_THRESHOLD and
\* (GOOD, None) otherwise; time_sec equal to the threshold is GOOD.
C3_SlowIsStrict ==
  (classifyCalled /\ error = None /\ status_code = Some(200)
     /\ InWindow(size_bytes) /\ time_sec # None)
    => verdict = IF Val(time_sec) > BASELINE_TIME * SLOW_FACTOR
                 THEN Returned("ABNORMAL", Some("SLOW"))
                 ELSE Returned("GOOD", None)

C3_Witness ==
  /\ pc = "classified"
  /\ error = None /\ status_code = Some(200)
  /\ size_bytes = Some(SIZE_HIGH) /\ time_sec = Some(BASELINE_TIME * SLOW_FACTOR)
  /\ verdict.state = "GOOD"

\* C4: classify is total: for every combination of present and absent
\* arguments it returns one of GOOD, ABNORMAL, DOWN and never raises.
C4_ClassifyTotal ==
  classifyCalled => (verdict.kind = "return" /\ verdict.state \in States)

\* C9: a verdict returned by classify has reason None exactly when the
\* state is GOOD, ERROR exactly when it is DOWN, CONTENT or SLOW exactly when
\* it is ABNORMAL; build_message applied to that verdict never takes the
\* branch of an ABNORMAL state with an unrecognized reason.
C9_VerdictConsistent ==
  /\ verdict.kind = "return" =>
       /\ verdict.state \in States
       /\ (verdict.reason_tag = None) <=> (verdict.state = "GOOD")
       /\ (verdict.reason_tag = Some("ERROR")) <=> (verdict.state = "DOWN")
       /\ (verdict.reason_tag \in {Some("CONTENT"), Some("SLOW")})
             <=> (verdict.state = "ABNORMAL")
  /\ pc = "built" =>
       /\ lines[1] # "SAILGPT WatchDog: ABNORMAL"
       /\ lines[2] # "SailGPT is reachable, but behaviour is unusual."
       /\ Len(lines) # 7

C9_Witness ==
  /\ pc = "built"
  /\ verdict = Returned("ABNORMAL", Some("SLOW"))
  /\ lines[1] = "SAILGPT WatchDog: ABNORMAL (SLOW)"

ExpSize == IF size_bytes = None THEN "N/A"
           ELSE ToString(Val(size_bytes)) \o " bytes"
ExpTime == IF time_sec = None THEN "N/A"
           ELSE ToString(Val(time_sec) \div 1000) \o "." \o Pad3(Val(time_sec) % 1000) \o " s"
ExpPct == IF size_bytes = None \/ size_bytes = Some(0) \/ baseline.size = 0
          THEN "unknown vs normal"
          ELSE ToString(Round(100 * Val(size_bytes), baseline.size)) \o "% of normal"
ExpFactor == IF time_sec = None \/ time_sec = Some(0) \/ baseline.time = 0
             THEN "slower than normal"
             ELSE LET t == Round(10 * Val(time_sec), baseline.time)
                  IN  ToString(t \div 10) \o "." \o ToString(t % 10) \o "X slower than normal"
ExpBaseSize == " (normal ~" \o ToString(baseline.size) \o " bytes)"
ExpBaseTime == " (normal ~" \o (IF baseline.time = 0 THEN "0.00" ELSE "0.21") \o " s)"

\* build_message has returned a message whose numeric fields are rendered
\* as ExpSize and ExpTime, and whose status code is rendered as statusTxt
RendersAs(statusTxt) ==
  pc # "args" =>
    /\ pc = "built" /\ exc = ""
    /\ message # None /\ message = Some(Join(lines))
    /\ state = "GOOD" =>
         /\ Len(lines) = 5
         /\ lines[4] = "Response time: " \o ExpTime \o ExpBaseTime
         /\ lines[5] = "Page size: " \o ExpSize \o ExpBaseSize
    /\ (state = "ABNORMAL" /\ reason_tag = Some("CONTENT")) =>
         lines[4] = "Page size: " \o ExpSize \o ExpBaseSize \o " = " \o ExpPct \o "."
    /\ (state = "ABNORMAL" /\ reason_tag = Some("SLOW")) =>
         /\ lines[4] = "Response time: " \o ExpTime \o ExpBaseTime \o " = " \o ExpFactor \o "."
         /\ lines[5] = "Page size: " \o ExpSize \o ExpBaseSize \o "."
    /\ (state = "ABNORMAL" /\ reason_tag \notin {Some("CONTENT"), Some("SLOW")}) =>
         /\ lines[4] = "Status code: " \o statusTxt
         /\ lines[5] = "Response time: " \o ExpTime
         /\ lines[6] = "Page size: " \o ExpSize
    /\ state = "DOWN" => Len(lines) = 5

C6_ErrorText ==
  (lines # <<>> /\ state = "DOWN") =>
    lines[4] = "Error: "
                 \o (IF error # None THEN Val(error)
                     ELSE IF status_code # None THEN "HTTP " \o ToString(Val(status_code))
                     ELSE "Unknown error")
                 \o "."

Printed(txt) == Cardinality({i \in DOMAIN stdout : stdout[i] = txt})

\* C7: in every run of main the message is built once and printed once, and
\* send_telegram is called with that message if and only if the state is
\* not GOOD, after the message and the STATE line have been printed.
C7_NotifyIffNotGood ==
  /\ calls.build_message <= 1 /\ calls.send_telegram <= 1
  /\ message # None => Printed(Val(message)) <= 1
  /\ tg_message # None =>
       /\ calls.send_telegram = 1
       /\ state # "GOOD"
       /\ tg_message = message
       /\ Len(stdout) >= 3
       /\ stdout[1] = Val(message)
       /\ stdout[3] = "STATE: " \o state
  /\ calls.send_telegram = 1 => tg_message # None
  /\ attempts # <<>> => tg_message # None
  /\ pc = "done" =>
       /\ calls.build_message = 1
       /\ Printed(Val(message)) = 1
       /\ (calls.send_telegram = 1) <=> (state # "GOOD")

C7_Witness ==
  /\ pc = "done"
  /\ state = "ABNORMAL"
  /\ tg_message = message
  /\ Len(attempts) = 1 /\ attempts[1].text = Val(message)

Warnings == {i \in DOMAIN stdout :
               \E c \in ChatIds : stdout[i] = "WARNING: Telegram send failed for " \o c \o ": error"}
Failures == {i \in DOMAIN attempts : attempts[i].result = "exception"}

\* C8: when the transport is configured, send_telegram attempts every
\* destination of TG_CHAT_IDS exactly once, in whatever subset the attempts
\* fail: a failure is logged, does not stop the remaining attempts, is not
\* retried and does not leave send_telegram.
C8_EveryDestinationOnce ==
  /\ Len(attempts) = tg_i /\ tg_i <= Len(TG_CHAT_IDS)
  /\ \A i \in DOMAIN attempts :
       /\ attempts[i].cid = TG_CHAT_IDS[i]
       /\ attempts[i].text = Val(tg_message)
  /\ Cardinality(Warnings) = Cardinality(Failures)
  /\ tg_message # None => (exc = "" /\ pc # "crashed")
  /\ (pc = "done" /\ tg_message # None /\ Configured) =>
       Len(attempts) = Len(TG_CHAT_IDS)

C8_Witness ==
  /\ pc = "done"
  /\ Len(TG_CHAT_IDS) = 2
  /\ Len(attempts) = 2
  /\ attempts[1].result = "exception" /\ attempts[2].result = "ok"
  /\ Cardinality(Warnings) = 1

\* C10: in every run of main, wherever the fetch raises, the outcome handed
\* to classify has size_bytes and time_sec present when error is absent and
\* status_code is 200; a partially filled outcome carries an error and is
\* classified DOWN, so classify never compares an absent value in main.
C10_OutcomeWellFormed ==
  /\ pc \notin {"get", "status", "size"} =>
       /\ (error = None /\ status_code = Some(200)) =>
            (size_bytes # None /\ time_sec # None)
       /\ (status_code = None \/ size_bytes = None \/ time_sec = None) =>
            error # None
  /\ (verdict.kind # "none" /\ error # None) => verdict = Returned("DOWN", Some("ERROR"))
  /\ verdict.kind # "raise" /\ pc # "crashed"

C10_Witness ==
  /\ pc = "build"
  /\ status_code = Some(200) /\ time_sec # None /\ size_bytes = None
  /\ error # None
  /\ state = "DOWN"

====
